---- MODULE Spec2Model ----
(***************************************************************************)
(* Model of the VLM-evaluate-AD scripts:                                   *)
(*   - prepare_dialogue and the row loop of generate_final_output          *)
(*     (src/prepare_human_ad.py)                                           *)
(*   - extract_audio_clips         (src/extract_human_transcript.py)       *)
(*   - clean_and_parse_json, process_single_chunk, combine_chunk_responses,*)
(*     evaluate_video_with_qwen and main (src/qwen_evaluate.py)            *)
(*                                                                         *)
(* Times of prepare_dialogue are exact decimals counted in ticks of 5 ms   *)
(* (0.1 s = 20 ticks, 0.01 s = 2 ticks), so that round(x, 2) is not the    *)
(* identity.  Durations of the chunk loop are counted in whole seconds.    *)
(* The arithmetic is exact: the representation error of binary floating    *)
(* point (0.1 is not a float) is not modelled.                             *)
(* Next to some operators stands a faulty variant of the same code (named   *)
(* in the comment above it), used to test that the properties below detect *)
(* the fault.                                                              *)
(***************************************************************************)
EXTENDS Integers, Sequences, FiniteSets, TLC

VARIABLES
    \* ---- prepare_dialogue ----
    dpc,                 \* position: "run" inside the loops, "done" after return
    scene,               \* the scene of the outer loop: [idx, start_time, end_time]
    lineIdx,             \* number of lines of this scene's transcript already processed
    dialogue,            \* the list being built
    sequence_counter,
    last_dialogue_end,   \* <<>> is None, <<t>> is the value t
    continuing_dialogue,
    lastLine,            \* history: the line processed last and what was done with it
    prevLine,            \* history: the line processed before lastLine
    nLines,              \* history: transcript lines processed
    nMerged,             \* history: lines folded into the previous interval
    \* ---- clean_and_parse_json / combine_chunk_responses called on their own ----
    npc,                 \* "call" before the call, "done" after it
    ntext,               \* the text handed to clean_and_parse_json
    nresponses,          \* the list handed to combine_chunk_responses
    nresult,             \* what the call did: [out, exc, val]
    \* ---- evaluate_video_with_qwen ----
    cpc,                 \* "probe", "loop", "create", "infer", "finally", "combine", "done"
    video_duration,
    chunk_start,
    chunk_end,
    chunk_index,
    temp_files,          \* the chunk files registered, by chunk index
    files,               \* the chunk files that exist on disk, by chunk index
    all_responses,
    attempt,             \* the loop variable of process_single_chunk
    loop_exc,            \* the exception that left the chunk loop, "" if none
    result,              \* what evaluate_video_with_qwen did: [out, exc, val]
    probe_failed,        \* history: the duration probe failed
    chunk_log,           \* history: per window [start, end, created, outcomes, appended]
    remove_failed,       \* history: the files whose os.remove raised OSError
    \* ---- generate_final_output / extract_audio_clips (the row loops) ----
    apc,                 \* "rows" inside the row loop, "done" after the function ended
    rows,                \* history: the rows the reader has yielded so far
    audio_clips,         \* the list being built ("clips" in extract_audio_clips)
    aout,                \* how the function ended: "" running, "written", "returned",
                         \* "write_failed", "aborted", or the exception that escaped
    \* ---- main of qwen_evaluate.py ----
    mpc,                 \* "check", "load", "evaluate", "save", "done"
    inputs,              \* which input files exist: [video, json]
    collected,           \* history: the responses evaluate_video_with_qwen gathered
    evaluation_result,   \* what evaluate_video_with_qwen returned: [out, exc, val]
    output_file,         \* <<>> no file written, <<v>> the file holds v
    main_exc,            \* the exception that left main, "" if none
    mtrace               \* history: the steps main has taken and how they ended

dvars == <<dpc, scene, lineIdx, dialogue, sequence_counter, last_dialogue_end,
           continuing_dialogue, lastLine, prevLine, nLines, nMerged>>

nvars == <<npc, ntext, nresponses, nresult>>

cvars == <<cpc, video_duration, chunk_start, chunk_end, chunk_index, temp_files, files,
           all_responses, attempt, loop_exc, result, probe_failed, chunk_log,
           remove_failed>>

avars == <<apc, rows, audio_clips, aout>>

mvars == <<mpc, inputs, collected, evaluation_result, output_file, main_exc, mtrace>>

vars == <<dvars, nvars, cvars, avars, mvars>>

----------------------------------------------------------------------------
(* Bounds of the model *)
MaxScenes == 3
MaxLinesTotal == 3

(* Program constants, in ticks of 5 ms *)
GapThreshold == 20
TrailingTrim == 20
RoundStep == 2

Abs(x) == IF x < 0 THEN -x ELSE x

Min(a, b) == IF a < b THEN a ELSE b

(* round(x, 2): to the nearest multiple of 0.01 s, ties to the even hundredth *)
Round2(x) ==
    IF x % RoundStep = 0 THEN x
    ELSE IF ((x - 1) \div RoundStep) % 2 = 0 THEN x - 1 ELSE x + 1

(* Scene lengths and transcript lines (start, end relative to the scene) the
   inputs are drawn from. *)
SceneLens == {200, 230}

TranscriptLines ==
    { [start |-> 0,   end |-> 195],   \* opens the scene, ends 0.025 s before a 1 s scene ends
      [start |-> 5,   end |-> 181],   \* odd length, ends 0.095 s before the end
      [start |-> 10,  end |-> 180],   \* ends exactly 0.1 s before the end
      [start |-> 20,  end |-> 200],   \* starts exactly 0.1 s in, ends at the scene end
      [start |-> 21,  end |-> 100],   \* starts 0.105 s in, ends mid-scene
      [start |-> 101, end |-> 119],   \* 0.005 s after the previous one
      [start |-> 0,   end |-> 15] }   \* shorter than the trailing trim

----------------------------------------------------------------------------
(* The response normalizer.  A text is a sequence of tokens:                *)
(*   FENCE  a code-fence marker, ``` or ```json                             *)
(*   WS     white space                                                     *)
(*   LB RB  the braces { and }                                              *)
(*   KEY    "evaluation_summary":      OKEY   "a":                          *)
(*   SQKEY  'evaluation_summary':  (a Python literal, not JSON)             *)
(*   NUM    42                         STR    "evaluation_summary"          *)
(*   WORD   a word of prose                                                 *)
(*   DEEP   a run of more opening [ than the interpreter's recursion limit  *)

Tokens == {"FENCE", "WS", "LB", "RB", "KEY", "OKEY", "SQKEY", "NUM", "STR", "WORD", "DEEP"}

MaxTextLen == 4

RECURSIVE SeqsUpTo(_, _)
SeqsUpTo(S, n) ==
    IF n = 0 THEN {<<>>}
    ELSE LET shorter == SeqsUpTo(S, n - 1)
         IN  shorter \cup {Append(t, x) : t \in {u \in shorter : Len(u) = n - 1}, x \in S}

Texts == SeqsUpTo(Tokens, MaxTextLen)

(* Python values, all of one record shape:
   t: "dict" | "num" | "str";  key: the key of a one-member dict ("" if empty);
   items: the member's value;  n: the length of a str in STR tokens;
   msg, raw: the "error" and "raw_response"/"raw_responses" of an error object. *)
NumVal == [t |-> "num", key |-> "", items |-> <<>>, n |-> 0, msg |-> "", raw |-> <<>>]
StrVal(k) == [t |-> "str", key |-> "", items |-> <<>>, n |-> k, msg |-> "", raw |-> <<>>]
DictVal(k, vs) == [t |-> "dict", key |-> k, items |-> vs, n |-> 0, msg |-> "", raw |-> <<>>]
ErrorObject(m, r) == [t |-> "dict", key |-> "error", items |-> <<>>, n |-> 0, msg |-> m, raw |-> r]

Return(v) == [out |-> "return", exc |-> "", val |-> v]
Raise(e) == [out |-> "raise", exc |-> e, val |-> NumVal]

(* re.sub(r'```json|```', '', text) *)
RemoveFences(text) == SelectSeq(text, LAMBDA tok : tok # "FENCE")

(* str.strip() *)
RECURSIVE Strip(_)
Strip(text) ==
    IF text = <<>> THEN text
    ELSE IF Head(text) = "WS" THEN Strip(Tail(text))
    ELSE IF text[Len(text)] = "WS" THEN Strip(SubSeq(text, 1, Len(text) - 1))
    ELSE text

(* str.find / str.rfind, 1-based, 0 for "not found" (Python: -1) *)
Find(text, tok) ==
    IF \E i \in 1..Len(text) : text[i] = tok
    THEN CHOOSE i \in 1..Len(text) : text[i] = tok /\ \A j \in 1..(i - 1) : text[j] # tok
    ELSE 0
RFind(text, tok) ==
    IF \E i \in 1..Len(text) : text[i] = tok
    THEN CHOOSE i \in 1..Len(text) : text[i] = tok /\ \A j \in (i + 1)..Len(text) : text[j] # tok
    ELSE 0

(* adjacent NUM tokens are the digits of one number *)
RECURSIVE SkipDigits(_, _)
SkipDigits(s, i) == IF i <= Len(s) /\ s[i] = "NUM" THEN SkipDigits(s, i + 1) ELSE i

RECURSIVE SkipWS(_, _)
SkipWS(s, i) == IF i <= Len(s) /\ s[i] = "WS" THEN SkipWS(s, i + 1) ELSE i

Parsed(v, nxt) == [status |-> "ok", val |-> v, next |-> nxt]
ParseFail(e) == [status |-> e, val |-> NumVal, next |-> 0]

(* The JSON decoder on a value starting at s[i] *)
RECURSIVE JsonValue(_, _)
JsonValue(s, i) ==
    IF i > Len(s) THEN ParseFail("JSONDecodeError")
    ELSE IF s[i] = "NUM" THEN Parsed(NumVal, SkipDigits(s, i + 1))
    ELSE IF s[i] = "STR" THEN Parsed(StrVal(1), i + 1)
    ELSE IF s[i] = "DEEP" THEN ParseFail("RecursionError")
    ELSE IF s[i] = "LB" THEN
        LET j == SkipWS(s, i + 1)
        IN  IF j > Len(s) THEN ParseFail("JSONDecodeError")
            ELSE IF s[j] = "RB" THEN Parsed(DictVal("", <<>>), j + 1)
            ELSE IF s[j] \in {"KEY", "OKEY"} THEN
                LET member == JsonValue(s, SkipWS(s, j + 1))
                    k == SkipWS(s, member.next)
                IN  IF member.status # "ok" THEN member
                    ELSE IF k <= Len(s) /\ s[k] = "RB"
                    THEN Parsed(DictVal(IF s[j] = "KEY" THEN "evaluation_summary" ELSE "a",
                                        <<member.val>>), k + 1)
                    ELSE ParseFail("JSONDecodeError")
            ELSE ParseFail("JSONDecodeError")
    ELSE ParseFail("JSONDecodeError")

(* json.loads: one value, nothing but white space after it *)
JsonLoads(s) ==
    LET r == JsonValue(s, SkipWS(s, 1))
    IN  IF r.status # "ok" THEN Raise(r.status)
        ELSE IF SkipWS(s, r.next) <= Len(s) THEN Raise("JSONDecodeError")
        ELSE Return(r.val)

(* How the Python parser fails on brackets nested too deep: with a SyntaxError
   ("too many nested parentheses") or with a MemoryError (parser stack
   overflow), depending on the interpreter and on what precedes the brackets. *)
ParserOverflow == {"SyntaxError", "MemoryError"}

(* ast.literal_eval on a text that holds no { before a }: a number, or adjacent
   string literals (which concatenate); everything else is a SyntaxError or a
   ValueError.  ov is the way the parser fails on a DEEP run. *)
LiteralEval(s, ov) ==
    LET body == SelectSeq(s, LAMBDA tok : tok # "WS")
    IN  IF \E i \in 1..Len(s) : s[i] = "DEEP" THEN Raise(ov)
        ELSE IF s # <<>> /\ \A i \in 1..Len(s) : s[i] = "NUM" THEN Return(NumVal)
        ELSE IF body # <<>> /\ \A i \in 1..Len(body) : body[i] = "STR"
        THEN Return(StrVal(Len(body)))
        ELSE IF body = <<"WORD">> THEN Raise("ValueError")
        ELSE Raise("SyntaxError")

Caught == {"JSONDecodeError", "SyntaxError", "ValueError"}

(* clean_and_parse_json, lines 103-119 *)
clean_and_parse_json(text, ov) ==
    IF text = <<>> THEN Return(ErrorObject("Received empty response from model.", <<>>))
    ELSE LET cleaned == Strip(RemoveFences(text))
             start_idx == Find(cleaned, "LB")
             end_idx == RFind(cleaned, "RB")
             r == IF start_idx # 0 /\ end_idx # 0 /\ start_idx < end_idx
                  THEN JsonLoads(SubSeq(cleaned, start_idx, end_idx))
                  ELSE LiteralEval(cleaned, ov)
         IN  IF r.out = "raise" /\ r.exc \in Caught
             THEN Return(ErrorObject("Failed to parse model output as JSON", <<cleaned>>))
             ELSE r

(* Python truth value of a parsed value *)
Truthy(v) == ~(v.t = "dict" /\ v.key = "")

(* "evaluation_summary" in parsed, for a value that supports "in" *)
HasSummary(v) ==
    \/ v.t = "dict" /\ v.key = "evaluation_summary"
    \/ v.t = "str" /\ v.n >= 1

(* combine_chunk_responses, lines 177-189: the loop from response i on *)
RECURSIVE ScanResponses(_, _, _)
ScanResponses(responses, i, ov) ==
    IF i > Len(responses)
    THEN Return(ErrorObject("Could not parse any chunk responses", responses))
    ELSE LET parsed == clean_and_parse_json(responses[i], ov)
         IN  IF parsed.out = "raise" THEN parsed
             ELSE IF ~Truthy(parsed.val) THEN ScanResponses(responses, i + 1, ov)
             ELSE IF parsed.val.t = "num" THEN Raise("TypeError")
             ELSE IF HasSummary(parsed.val) THEN parsed
             ELSE ScanResponses(responses, i + 1, ov)

combine_chunk_responses(responses, ov) ==
    IF responses = <<>> THEN Return(ErrorObject("No valid responses from chunks", <<>>))
    ELSE ScanResponses(responses, 1, ov)

NoLine == [kind |-> "none", start |-> 0, end |-> 0, gap |-> -1, hadPrev |-> FALSE,
           sceneIdx |-> 0, sceneEnd |-> 0, first |-> FALSE, flag |-> FALSE,
           lenBefore |-> 0, seqBefore |-> 1]

----------------------------------------------------------------------------
(* Each specification runs one of the programs; the variables of the
   others keep these values. *)
NoResult == [out |-> "none", exc |-> "", val |-> NumVal]

DIdle ==
    /\ dpc = "idle"
    /\ scene = [idx |-> 0, start_time |-> 0, end_time |-> 0]
    /\ lineIdx = 0
    /\ dialogue = <<>>
    /\ sequence_counter = 1
    /\ last_dialogue_end = <<>>
    /\ continuing_dialogue = FALSE
    /\ lastLine = NoLine
    /\ prevLine = NoLine
    /\ nLines = 0
    /\ nMerged = 0

NIdle ==
    /\ npc = "idle"
    /\ ntext = <<>>
    /\ nresponses = <<>>
    /\ nresult = NoResult

CIdle ==
    /\ cpc = "idle"
    /\ video_duration = 0
    /\ chunk_start = 0
    /\ chunk_end = 0
    /\ chunk_index = 0
    /\ temp_files = <<>>
    /\ files = {}
    /\ all_responses = <<>>
    /\ attempt = 0
    /\ loop_exc = ""
    /\ result = NoResult
    /\ probe_failed = FALSE
    /\ chunk_log = <<>>
    /\ remove_failed = {}

AIdle ==
    /\ apc = "idle"
    /\ rows = <<>>
    /\ audio_clips = <<>>
    /\ aout = ""

MIdle ==
    /\ mpc = "idle"
    /\ inputs = [video |-> FALSE, json |-> FALSE]
    /\ collected = <<>>
    /\ evaluation_result = NoResult
    /\ output_file = <<>>
    /\ main_exc = ""
    /\ mtrace = <<>>


----------------------------------------------------------------------------
(* prepare_dialogue *)

(* lines 9-12 *)
DInit ==
    /\ dpc = "run"
    /\ scene = [idx |-> 0, start_time |-> 0, end_time |-> 0]
    /\ lineIdx = 0
    /\ dialogue = <<>>
    /\ sequence_counter = 1
    /\ last_dialogue_end = <<>>
    /\ continuing_dialogue = FALSE
    /\ lastLine = NoLine
    /\ prevLine = NoLine
    /\ nLines = 0
    /\ nMerged = 0
    /\ NIdle
    /\ CIdle
    /\ AIdle
    /\ MIdle

(* line 24: last_dialogue_end is not None and abs(start - last_dialogue_end) < gap_threshold
   (CloseToLastNoGap: the gap test left out) *)
CloseToLastNoGap(start, lde) == lde # <<>>
CloseToLast(start, lde) == lde # <<>> /\ Abs(start - lde[1]) < GapThreshold

(* line 25: dialogue and continuing_dialogue *)
CanExtend(dlg, cont) == dlg # <<>> /\ cont

(* lines 26-27 (ExtendedNoTrim: the 0.1 left out of the new end_time) *)
ExtendedNoTrim(iv, end) ==
    [iv EXCEPT !.end_time = end, !.duration = Round2(end - iv.start_time)]

(* lines 26-27: the last interval extended in place *)
Extended(iv, end) ==
    [iv EXCEPT !.end_time = end - TrailingTrim,
               !.duration = Round2((end - TrailingTrim) - iv.start_time)]

(* lines 32-38: the interval a line emits *)
NewInterval(start, end, seq) ==
    [start_time |-> start, end_time |-> end - TrailingTrim,
     duration |-> Round2(end - start), sequence_num |-> seq]

(* line 28: a merge clears the flag (FlagAfterMergeKept: it is left as it was) *)
FlagAfterMergeKept(cont) == cont
FlagAfterMerge(cont) == FALSE

(* line 39 (NextSequenceStuck: the increment left out) *)
NextSequenceStuck(c) == c
NextSequence(c) == c + 1

(* lines 41-44 (ReachesSceneEndStrict: the tolerance left out) *)
ReachesSceneEndStrict(end, sceneEnd) == end >= sceneEnd
ReachesSceneEnd(end, sceneEnd) == end >= sceneEnd - GapThreshold

(* line 14: the outer loop takes the next scene *)
EnterScene ==
    /\ dpc = "run"
    /\ scene.idx < MaxScenes
    /\ \E len \in SceneLens :
         scene' = [idx |-> scene.idx + 1, start_time |-> scene.end_time,
                   end_time |-> scene.end_time + len]
    /\ lineIdx' = 0
    /\ UNCHANGED <<dpc, dialogue, sequence_counter, last_dialogue_end,
                   continuing_dialogue, lastLine, prevLine, nLines, nMerged, nvars, cvars,
                   avars, mvars>>

(* lines 18-46: one iteration of the inner loop *)
ProcessLine ==
    /\ dpc = "run"
    /\ scene.idx >= 1
    /\ nLines < MaxLinesTotal
    /\ \E line \in TranscriptLines :
         LET start == scene.start_time + line.start
             end == scene.start_time + line.end
             merge == CloseToLast(start, last_dialogue_end)
                        /\ CanExtend(dialogue, continuing_dialogue)
             info == [kind |-> IF merge THEN "merge" ELSE "emit",
                      start |-> start, end |-> end,
                      gap |-> IF last_dialogue_end = <<>> THEN -1
                              ELSE Abs(start - last_dialogue_end[1]),
                      hadPrev |-> last_dialogue_end # <<>>,
                      sceneIdx |-> scene.idx, sceneEnd |-> scene.end_time,
                      first |-> lineIdx = 0, flag |-> continuing_dialogue,
                      lenBefore |-> Len(dialogue), seqBefore |-> sequence_counter]
         IN  /\ (lineIdx > 0 /\ lastLine.kind # "none")
                    => line.start >= lastLine.start - scene.start_time
             /\ IF merge
                THEN /\ dialogue' = [dialogue EXCEPT ![Len(dialogue)] =
                                        Extended(dialogue[Len(dialogue)], end)]
                     /\ continuing_dialogue' = FlagAfterMerge(continuing_dialogue)
                     /\ sequence_counter' = sequence_counter
                     /\ nMerged' = nMerged + 1
                ELSE /\ dialogue' = Append(dialogue,
                                        NewInterval(start, end, sequence_counter))
                     /\ sequence_counter' = NextSequence(sequence_counter)
                     /\ continuing_dialogue' = ReachesSceneEnd(end, scene.end_time)
                     /\ nMerged' = nMerged
             /\ last_dialogue_end' = <<end>>
             /\ prevLine' = lastLine
             /\ lastLine' = info
    /\ lineIdx' = lineIdx + 1
    /\ nLines' = nLines + 1
    /\ UNCHANGED <<dpc, scene, nvars, cvars,
                   avars, mvars>>

(* line 48 *)
ReturnDialogue ==
    /\ dpc = "run"
    /\ dpc' = "done"
    /\ UNCHANGED <<scene, lineIdx, dialogue, sequence_counter, last_dialogue_end,
                   continuing_dialogue, lastLine, prevLine, nLines, nMerged, nvars, cvars,
                   avars, mvars>>

DNext == EnterScene \/ ProcessLine \/ ReturnDialogue

SpecDialogue == DInit /\ [][DNext]_vars

----------------------------------------------------------------------------
(* clean_and_parse_json called on every text of at most MaxTextLen tokens *)

NInit ==
    /\ npc = "call"
    /\ ntext \in Texts
    /\ nresponses = <<>>
    /\ nresult = NoResult
    /\ DIdle
    /\ CIdle
    /\ AIdle
    /\ MIdle

CallCleanAndParse ==
    /\ npc = "call"
    /\ \E ov \in ParserOverflow : nresult' = clean_and_parse_json(ntext, ov)
    /\ npc' = "done"
    /\ UNCHANGED <<ntext, nresponses, dvars, cvars,
                   avars, mvars>>

NNext == CallCleanAndParse

SpecNormalizer == NInit /\ [][NNext]_vars

----------------------------------------------------------------------------
(* combine_chunk_responses called on every list of at most MaxResponses
   non-empty responses (evaluate_video_with_qwen collects only non-empty
   ones, line 227) *)

MaxResponses == 3

ResponseTexts ==
    { <<"WORD">>,                          \* not json
      <<"NUM">>,                           \* 42
      <<"STR">>,                           \* "evaluation_summary"
      <<"LB", "RB">>,                      \* {}
      <<"LB", "OKEY", "NUM", "RB">>,       \* {"a": 42}
      <<"LB", "KEY", "NUM", "RB">>,        \* {"evaluation_summary": 42}
      <<"FENCE", "LB", "KEY", "STR", "RB", "FENCE">>,
      <<"LB", "KEY", "DEEP", "RB">> }      \* {"evaluation_summary": [[[[ ... ]]]]}

KInit ==
    /\ npc = "call"
    /\ ntext = <<>>
    /\ nresponses \in SeqsUpTo(ResponseTexts, MaxResponses)
    /\ nresult = NoResult
    /\ DIdle
    /\ CIdle
    /\ AIdle
    /\ MIdle

CallCombine ==
    /\ npc = "call"
    /\ \E ov \in ParserOverflow : nresult' = combine_chunk_responses(nresponses, ov)
    /\ npc' = "done"
    /\ UNCHANGED <<ntext, nresponses, dvars, cvars,
                   avars, mvars>>

KNext == CallCombine

SpecCombine == KInit /\ [][KNext]_vars

----------------------------------------------------------------------------
(* evaluate_video_with_qwen, with create_video_chunk, process_single_chunk and
   get_video_duration as the steps it calls.  Durations are whole seconds. *)

MaxDuration == 65

chunk_duration == 30
max_retries == 2

(* What the model may answer: nothing, prose, a bare number, an evaluation *)
ModelOutputs ==
    { <<>>, <<"WORD">>, <<"NUM">>, <<"LB", "KEY", "NUM", "RB">> }

CInit ==
    /\ cpc = "probe"
    /\ video_duration = 0
    /\ chunk_start = 0
    /\ chunk_end = 0
    /\ chunk_index = 0
    /\ temp_files = <<>>
    /\ files = {}
    /\ all_responses = <<>>
    /\ attempt = 0
    /\ loop_exc = ""
    /\ result = NoResult
    /\ probe_failed = FALSE
    /\ chunk_log = <<>>
    /\ remove_failed = {}
    /\ DIdle
    /\ NIdle
    /\ AIdle
    /\ MIdle

(* get_video_duration, lines 96-101: the duration ffprobe printed, or 0.0 when
   ffprobe exits non-zero or prints no number (ProbedDurationDefault: one
   chunk's length instead of 0.0) *)
ProbedDurationDefault(ok, d) == IF ok THEN d ELSE chunk_duration
ProbedDuration(ok, d) == IF ok THEN d ELSE 0

(* lines 90-101 and 199: ffprobe prints the duration, or fails *)
ProbeDuration ==
    /\ cpc = "probe"
    /\ \E ok \in BOOLEAN, d \in 0..MaxDuration :
          /\ video_duration' = ProbedDuration(ok, d)
          /\ probe_failed' = ~ok
    /\ cpc' = "loop"
    /\ UNCHANGED <<chunk_start, chunk_end, chunk_index, temp_files, files, all_responses,
                   attempt, loop_exc, result, chunk_log, remove_failed, dvars, nvars,
                   avars, mvars>>

(* line 209 (ChunkEndNoClamp: the min left out) *)
ChunkEndNoClamp(cs, d) == cs + chunk_duration
ChunkEnd(cs, d) == Min(cs + chunk_duration, d)

(* line 215 (RegisterTempNever: the append left out) *)
RegisterTempNever(tf, idx) == tf
RegisterTemp(tf, idx) == Append(tf, idx)

(* lines 208-217: the loop test and the head of the body *)
EnterChunk ==
    /\ cpc = "loop"
    /\ chunk_start < video_duration
    /\ chunk_end' = ChunkEnd(chunk_start, video_duration)
    /\ temp_files' = RegisterTemp(temp_files, chunk_index)
    /\ chunk_log' = Append(chunk_log,
           [start |-> chunk_start, end |-> ChunkEnd(chunk_start, video_duration),
            index |-> chunk_index, created |-> FALSE, outcomes |-> <<>>,
            appended |-> FALSE])
    /\ cpc' = "create"
    /\ UNCHANGED <<video_duration, chunk_start, chunk_index, files, all_responses,
                   attempt, loop_exc, result, probe_failed, remove_failed, dvars, nvars,
                   avars, mvars>>

(* line 208: the loop test fails *)
LeaveLoop ==
    /\ cpc = "loop"
    /\ ~(chunk_start < video_duration)
    /\ cpc' = "finally"
    /\ UNCHANGED <<video_duration, chunk_start, chunk_end, chunk_index, temp_files,
                   files, all_responses, attempt, loop_exc, result, probe_failed,
                   chunk_log, remove_failed, dvars, nvars,
                   avars, mvars>>

(* lines 230-231 *)
Advance ==
    /\ chunk_start' = chunk_end
    /\ chunk_index' = chunk_index + 1
    /\ cpc' = "loop"

LogLast(f, v) == [chunk_log EXCEPT ![Len(chunk_log)][f] = v]

(* line 84: ffmpeg writes the file of this chunk next to the files of the
   earlier chunks, which stay (OnlyChunkFile: the earlier files are gone) *)
OnlyChunkFile(fs, idx) == {idx}
WithChunkFile(fs, idx) == fs \cup {idx}

(* lines 219 and 73-85: ffmpeg writes the chunk file *)
CreateChunkOk ==
    /\ cpc = "create"
    /\ files' = WithChunkFile(files, chunk_index)
    /\ chunk_log' = LogLast("created", TRUE)
    /\ attempt' = 0
    /\ cpc' = "infer"
    /\ UNCHANGED <<video_duration, chunk_start, chunk_end, chunk_index, temp_files,
                   all_responses, loop_exc, result, probe_failed, remove_failed,
                   dvars, nvars,
                   avars, mvars>>

(* lines 86-88: ffmpeg exits non-zero, with or without a partial file left;
   the window is skipped *)
CreateChunkFails ==
    /\ cpc = "create"
    /\ \E left \in BOOLEAN :
         files' = IF left THEN files \cup {chunk_index} ELSE files
    /\ Advance
    /\ UNCHANGED <<video_duration, chunk_end, temp_files, all_responses, attempt,
                   loop_exc, result, probe_failed, chunk_log, remove_failed, dvars, nvars,
                   avars, mvars>>

(* lines 84 and 87: anything but CalledProcessError (ffmpeg cannot be started,
   its stderr does not decode) leaves create_video_chunk and the loop *)
CreateChunkRaises ==
    /\ cpc = "create"
    /\ \E left \in BOOLEAN :
         files' = IF left THEN files \cup {chunk_index} ELSE files
    /\ \E e \in {"OSError", "UnicodeDecodeError"} : loop_exc' = e
    /\ cpc' = "finally"
    /\ UNCHANGED <<video_duration, chunk_start, chunk_end, chunk_index, temp_files,
                   all_responses, attempt, result, probe_failed, chunk_log,
                   remove_failed, dvars, nvars,
                   avars, mvars>>

(* line 227-228 *)
Collected(resps, chunk_response) ==
    IF chunk_response # <<>> THEN Append(resps, chunk_response) ELSE resps

(* lines 127-159: an attempt of process_single_chunk that succeeds *)
InvokeModelOk ==
    /\ cpc = "infer"
    /\ \E response_text \in ModelOutputs :
         /\ all_responses' = Collected(all_responses, response_text)
         /\ chunk_log' = [chunk_log EXCEPT
                ![Len(chunk_log)].outcomes = Append(@, "ok"),
                ![Len(chunk_log)].appended = (response_text # <<>>)]
    /\ Advance
    /\ UNCHANGED <<video_duration, chunk_end, temp_files, files, attempt, loop_exc,
                   result, probe_failed, remove_failed, dvars, nvars,
                   avars, mvars>>

(* lines 165 and 171 (LastAttemptLate: off by one) *)
LastAttemptLate(a) == a = max_retries
LastAttempt(a) == a = max_retries - 1

(* lines 161-173: an attempt that fails, out of memory or otherwise *)
InvokeModelFails ==
    /\ cpc = "infer"
    /\ \E e \in {"OutOfMemoryError", "Exception"} :
         chunk_log' = [chunk_log EXCEPT ![Len(chunk_log)].outcomes = Append(@, e)]
    /\ IF LastAttempt(attempt)
       THEN /\ Advance
            /\ attempt' = attempt
       ELSE /\ attempt' = attempt + 1
            /\ UNCHANGED <<cpc, chunk_start, chunk_index>>
    /\ UNCHANGED <<video_duration, chunk_end, temp_files, files, all_responses, loop_exc,
                   result, probe_failed, remove_failed, dvars, nvars,
                   avars, mvars>>

Range(f) == {f[i] : i \in DOMAIN f}

(* lines 233-240: every registered file that exists is removed, unless
   os.remove raises OSError, which is passed over.  An exception that left
   the loop goes on to the caller. *)
Finally ==
    /\ cpc = "finally"
    /\ \E failed \in SUBSET (Range(temp_files) \cap files) :
         /\ files' = (files \ Range(temp_files)) \cup failed
         /\ remove_failed' = failed
    /\ IF loop_exc # ""
       THEN cpc' = "done" /\ result' = Raise(loop_exc)
       ELSE cpc' = "combine" /\ result' = result
    /\ UNCHANGED <<video_duration, chunk_start, chunk_end, chunk_index, temp_files,
                   all_responses, attempt, loop_exc, probe_failed, chunk_log, dvars, nvars,
                   avars, mvars>>

(* line 243 *)
Combine ==
    /\ cpc = "combine"
    /\ \E ov \in ParserOverflow : result' = combine_chunk_responses(all_responses, ov)
    /\ cpc' = "done"
    /\ UNCHANGED <<video_duration, chunk_start, chunk_end, chunk_index, temp_files, files,
                   all_responses, attempt, loop_exc, probe_failed, chunk_log,
                   remove_failed, dvars, nvars,
                   avars, mvars>>

CNext ==
    \/ ProbeDuration
    \/ EnterChunk
    \/ LeaveLoop
    \/ CreateChunkOk
    \/ CreateChunkFails
    \/ CreateChunkRaises
    \/ InvokeModelOk
    \/ InvokeModelFails
    \/ Finally
    \/ Combine

SpecChunker == CInit /\ [][CNext]_vars

----------------------------------------------------------------------------
(* The row loops of generate_final_output (prepare_human_ad.py) and of
   extract_audio_clips (extract_human_transcript.py).

   A cell of the CSV file is a string.  float() maps it to a floating-point
   value or raises; a floating-point value is [k, v], k = "num" with the
   value v in seconds or k = "nan".  The text of a clip is modelled by the
   number of the row it was copied from, so that two clips are never equal. *)
MaxRows == 3
MinColumns == 19

Num(v) == [k |-> "num", v |-> v]
NaN == [k |-> "nan", v |-> 0]

(* row.get(name) of a column the row lacks yields None *)
MissingField == "<None>"

StartCells == {"1", "2", "2.0", "nan", "abc"}
EndCells == {"3", "abc"}

(* float(cell): float(None) raises TypeError, float("abc") and float("")
   raise ValueError, float("nan") is the NaN *)
Float(cell) ==
    IF cell = MissingField THEN Raise("TypeError")
    ELSE IF cell = "1" THEN Return(Num(1))
    ELSE IF cell \in {"2", "2.0"} THEN Return(Num(2))
    ELSE IF cell = "3" THEN Return(Num(3))
    ELSE IF cell = "nan" THEN Return(NaN)
    ELSE Raise("ValueError")

(* a < b of two floats: every comparison with the NaN is false *)
Lt(a, b) == a.k = "num" /\ b.k = "num" /\ a.v < b.v

Reverse(s) == [i \in 1..Len(s) |-> s[Len(s) + 1 - i]]

(* list.sort(key = start_time) of a list shorter than 64: the leading run is
   found (a strictly descending run is reversed), then the remaining elements
   are inserted one by one at the place a binary search finds. *)
RECURSIVE ExtendRun(_, _, _)
ExtendRun(s, i, desc) ==
    IF i > Len(s) THEN i - 1
    ELSE IF Lt(s[i].start_time, s[i - 1].start_time) = desc THEN ExtendRun(s, i + 1, desc)
    ELSE i - 1

CountRun(s) ==
    LET desc == Lt(s[2].start_time, s[1].start_time)
    IN  [n |-> ExtendRun(s, 3, desc), desc |-> desc]

RECURSIVE BinarySearch(_, _, _, _)
BinarySearch(s, pivot, l, r) ==
    IF l >= r THEN l
    ELSE LET p == l + ((r - l) \div 2)
         IN  IF Lt(pivot.start_time, s[p].start_time)
             THEN BinarySearch(s, pivot, l, p)
             ELSE BinarySearch(s, pivot, p + 1, r)

RECURSIVE BinarySort(_, _)
BinarySort(s, start) ==
    IF start > Len(s) THEN s
    ELSE LET pivot == s[start]
             l == BinarySearch(s, pivot, 1, start)
         IN  BinarySort(SubSeq(s, 1, l - 1) \o <<pivot>> \o SubSeq(s, l, start - 1)
                            \o SubSeq(s, start + 1, Len(s)),
                        start + 1)

ListSort(s) ==
    IF Len(s) < 2 THEN s
    ELSE LET run == CountRun(s)
             head == SubSeq(s, 1, run.n)
             s1 == (IF run.desc THEN Reverse(head) ELSE head)
                       \o SubSeq(s, run.n + 1, Len(s))
         IN  BinarySort(s1, run.n + 1)

Clip(start, end, n) == [start_time |-> start, end_time |-> end, text |-> n]

(* ---- generate_final_output ---- *)
(* the rows csv.reader can yield: an empty row, a row of 17 columns with good
   times, and rows of 19 columns *)
CsvRows ==
    {[ncols |-> 0, start |-> "", end |-> ""], [ncols |-> 17, start |-> "1", end |-> "3"]}
        \cup [ncols : {MinColumns}, start : StartCells, end : EndCells]

(* the body of the try statement for row number n: "skip" is the continue of
   the column check *)
RowClip(row, n) ==
    IF row.ncols < MinColumns THEN [out |-> "skip", exc |-> "", val |-> NumVal]
    ELSE LET s == Float(row.start)
             e == Float(row.end)
         IN  IF s.out = "raise" THEN s
             ELSE IF e.out = "raise" THEN e
             ELSE Return(Clip(s.val, e.val, n))

(* faulty variant of CaughtInRow: the handler no longer catches ValueError *)
CaughtInRowIndexOnly == {"IndexError"}

CaughtInRow == {"IndexError", "ValueError"}

AInit ==
    /\ apc = "rows"
    /\ rows = <<>>
    /\ audio_clips = <<>>
    /\ aout = ""
    /\ DIdle
    /\ NIdle
    /\ CIdle
    /\ MIdle

(* one iteration of the loop over csv_reader *)
ReadCsvRow ==
    /\ apc = "rows"
    /\ Len(rows) < MaxRows
    /\ \E row \in CsvRows :
          /\ rows' = Append(rows, row)
          /\ IF row.ncols = 0
             THEN UNCHANGED <<apc, audio_clips, aout>>
             ELSE LET r == RowClip(row, Len(rows) + 1)
                  IN  IF r.out = "return"
                      THEN /\ audio_clips' = Append(audio_clips, r.val)
                           /\ UNCHANGED <<apc, aout>>
                      ELSE IF r.out = "skip" \/ r.exc \in CaughtInRow
                      THEN UNCHANGED <<apc, audio_clips, aout>>
                      ELSE /\ apc' = "done"
                           /\ aout' = r.exc
                           /\ UNCHANGED audio_clips
    /\ UNCHANGED <<dvars, nvars, cvars, mvars>>

(* reading the file raises (it is missing, or not UTF-8): the outer handlers
   print and return *)
CsvReadFails ==
    /\ apc = "rows"
    /\ apc' = "done"
    /\ aout' = "aborted"
    /\ UNCHANGED <<rows, audio_clips, dvars, nvars, cvars, mvars>>

(* the reader is exhausted: sort, then write the final file *)
SortAndWrite ==
    /\ apc = "rows"
    /\ audio_clips' = ListSort(audio_clips)
    /\ apc' = "done"
    /\ \E ok \in BOOLEAN : aout' = IF ok THEN "written" ELSE "write_failed"
    /\ UNCHANGED <<rows, dvars, nvars, cvars, mvars>>

FNext == ReadCsvRow \/ CsvReadFails \/ SortAndWrite

SpecFinalOutput == AInit /\ [][FNext]_vars

(* ---- extract_audio_clips ---- *)
(* the rows csv.DictReader can yield: a row of another video, and rows of the
   requested video and description *)
DictRows ==
    {[match |-> FALSE, start |-> "1", end |-> "3"]}
        \cup [match : {TRUE}, start : StartCells \cup {MissingField}, end : EndCells]

(* one iteration of the loop over reader; an exception of float() leaves
   the function *)
ReadDictRow ==
    /\ apc = "rows"
    /\ Len(rows) < MaxRows
    /\ \E row \in DictRows :
          /\ rows' = Append(rows, row)
          /\ IF ~row.match
             THEN UNCHANGED <<apc, audio_clips, aout>>
             ELSE LET s == Float(row.start)
                      e == Float(row.end)
                  IN  IF s.out = "raise" \/ e.out = "raise"
                      THEN /\ apc' = "done"
                           /\ aout' = IF s.out = "raise" THEN s.exc ELSE e.exc
                           /\ UNCHANGED audio_clips
                      ELSE /\ audio_clips' = Append(audio_clips,
                                                    Clip(s.val, e.val, Len(rows) + 1))
                           /\ UNCHANGED <<apc, aout>>
    /\ UNCHANGED <<dvars, nvars, cvars, mvars>>

(* the reader is exhausted: sort and return *)
SortAndReturn ==
    /\ apc = "rows"
    /\ audio_clips' = ListSort(audio_clips)
    /\ apc' = "done"
    /\ aout' = "returned"
    /\ UNCHANGED <<rows, dvars, nvars, cvars, mvars>>

ENext == ReadDictRow \/ SortAndReturn

SpecExtract == AInit /\ [][ENext]_vars

----------------------------------------------------------------------------
(* main of qwen_evaluate.py, lines 245-335.  evaluate_video_with_qwen is
   taken as a whole here: it gathers some list of non-empty responses (the
   chunk loop above) and returns their reduction, or an exception leaves it. *)
MInit ==
    /\ mpc = "check"
    /\ inputs \in [video : BOOLEAN, json : BOOLEAN]
    /\ collected = <<>>
    /\ evaluation_result = NoResult
    /\ output_file = <<>>
    /\ main_exc = ""
    /\ mtrace = <<>>
    /\ DIdle
    /\ NIdle
    /\ CIdle
    /\ AIdle

(* lines 256-258: a missing video or JSON file ends the run *)
CheckInputs ==
    /\ mpc = "check"
    /\ mpc' = IF inputs.video /\ inputs.json THEN "load" ELSE "done"
    /\ mtrace' = Append(mtrace, IF inputs.video /\ inputs.json THEN "found" ELSE "missing")
    /\ UNCHANGED <<inputs, collected, evaluation_result, output_file, main_exc,
                   dvars, nvars, cvars, avars>>

(* lines 263-301: the input JSON is read (json.load may raise), the model is
   loaded (a failure is printed and ends the run) *)
LoadJsonAndModel ==
    /\ mpc = "load"
    /\ \E how \in {"loaded", "JSONDecodeError", "load_failed"} :
          /\ mtrace' = Append(mtrace, how)
          /\ mpc' = IF how = "loaded" THEN "evaluate" ELSE "done"
          /\ main_exc' = IF how = "JSONDecodeError" THEN how ELSE ""
    /\ UNCHANGED <<inputs, collected, evaluation_result, output_file,
                   dvars, nvars, cvars, avars>>

(* lines 306-320: standardize the video and evaluate it; an exception passes
   through the finally clause and leaves main *)
EvaluateVideo ==
    /\ mpc = "evaluate"
    /\ \E responses \in SeqsUpTo(ResponseTexts, MaxResponses), ov \in ParserOverflow,
          loop \in {"", "OSError"} :
          LET r == IF loop # "" THEN Raise(loop) ELSE combine_chunk_responses(responses, ov)
          IN  /\ collected' = responses
              /\ mtrace' = Append(mtrace, IF loop # "" THEN "loop_raised" ELSE "evaluated")
              /\ IF r.out = "raise"
                 THEN /\ main_exc' = r.exc
                      /\ mpc' = "done"
                      /\ UNCHANGED evaluation_result
                 ELSE /\ evaluation_result' = r
                      /\ mpc' = "save"
                      /\ UNCHANGED main_exc
    /\ UNCHANGED <<inputs, output_file, dvars, nvars, cvars, avars>>

(* lines 322-334: a truthy result is written; an IOError is printed *)
SaveResult ==
    /\ mpc = "save"
    /\ mpc' = "done"
    /\ IF Truthy(evaluation_result.val)
       THEN \E ok \in BOOLEAN :
               /\ output_file' = IF ok THEN <<evaluation_result.val>> ELSE <<>>
               /\ mtrace' = Append(mtrace, IF ok THEN "saved" ELSE "save_failed")
       ELSE /\ mtrace' = Append(mtrace, "nothing_to_save")
            /\ UNCHANGED output_file
    /\ UNCHANGED <<inputs, collected, evaluation_result, main_exc,
                   dvars, nvars, cvars, avars>>

MNext == CheckInputs \/ LoadJsonAndModel \/ EvaluateVideo \/ SaveResult

SpecMain == MInit /\ [][MNext]_vars

----------------------------------------------------------------------------
(* Claims about prepare_dialogue, checked under SpecDialogue *)

Returned == dpc = "done"

(* The pair (prevLine, lastLine) of adjacent lines C3 is about: the first ends
   less than 0.1 s from its scene's end, the second opens the next scene and
   starts less than 0.1 s from the first one's absolute end. *)
BoundaryPair ==
    /\ prevLine.kind # "none"
    /\ lastLine.kind # "none"
    /\ Abs(prevLine.sceneEnd - prevLine.end) < GapThreshold
    /\ lastLine.first
    /\ lastLine.sceneIdx = prevLine.sceneIdx + 1
    /\ Abs(lastLine.start - prevLine.end) < GapThreshold

(* The last line was folded into the interval that was last before it, and took
   no sequence number. *)
LastLineMerged ==
    /\ Len(dialogue) = lastLine.lenBefore
    /\ sequence_counter = lastLine.seqBefore
    /\ dialogue[Len(dialogue)].end_time = lastLine.end - TrailingTrim

(* The last line produced an interval of its own, after the previous ones. *)
LastLineEmitted ==
    /\ Len(dialogue) = lastLine.lenBefore + 1
    /\ dialogue[Len(dialogue)].start_time = lastLine.start
    /\ dialogue[Len(dialogue)].sequence_num = lastLine.seqBefore

\* C1: every interval returned by prepare_dialogue has
\* duration = round(end_time - start_time, 2).
C1_DurationMatchesEnds ==
    Returned => \A i \in 1..Len(dialogue) :
        dialogue[i].duration = Round2(dialogue[i].end_time - dialogue[i].start_time)

\* C2: the sequence_num values of the returned intervals are 1, 2, ..., N in
\* output order, N being the lines processed minus the lines merged away.
C2_SequenceNumbers ==
    Returned =>
        /\ Len(dialogue) = nLines - nMerged
        /\ \A i \in 1..Len(dialogue) : dialogue[i].sequence_num = i

C2_Witness ==
    Returned /\ nMerged >= 1 /\ Len(dialogue) >= 2

\* C3 as stated: every boundary pair ends up in one interval and the second
\* line takes no sequence number, whatever preceded the pair.
C3_EveryBoundaryPairMerges ==
    BoundaryPair => LastLineMerged

\* C3 amended: a boundary pair whose first line started an interval of its own
\* ends up in one interval and the second line takes no sequence number.
C3_BoundaryPairMergesAfterEmit ==
    (BoundaryPair /\ prevLine.kind = "emit") => LastLineMerged

C3_Witness ==
    BoundaryPair /\ prevLine.kind = "emit" /\ LastLineMerged /\ Len(dialogue) >= 2

\* C4: a line whose absolute start is more than 0.1 s from the raw end of the
\* line before it starts a new interval, whatever continuing_dialogue is.
C4_WideGapEmits ==
    (lastLine.hadPrev /\ lastLine.gap > GapThreshold) => LastLineEmitted

C4_Witness ==
    lastLine.hadPrev /\ lastLine.gap > GapThreshold /\ lastLine.flag /\ LastLineEmitted

----------------------------------------------------------------------------
(* Claims about the chunk loop, checked under SpecChunker *)

(* The chunk loop ended because its test failed, not by an exception *)
LoopCompleted == cpc \in {"finally", "combine", "done"} /\ loop_exc = ""

Finished == cpc = "done"

NumWindows(d) == (d + chunk_duration - 1) \div chunk_duration

WindowLen(i) == chunk_log[i].end - chunk_log[i].start

\* C5: the windows visited by the chunk loop start at 0, are consecutive,
\* never empty and never overlapping, all have length chunk_duration except
\* possibly the last; once the loop has completed they cover exactly [0, D),
\* there are ceil(D / chunk_duration) of them, and the last one has length
\* D mod chunk_duration when that is not zero.
C5_WindowsPartitionDuration ==
    /\ \A i \in 1..Len(chunk_log) :
         /\ chunk_log[i].start = (IF i = 1 THEN 0 ELSE chunk_log[i - 1].end)
         /\ chunk_log[i].start < chunk_log[i].end
         /\ chunk_log[i].end <= video_duration
         /\ i < Len(chunk_log) => WindowLen(i) = chunk_duration
         /\ WindowLen(i) <= chunk_duration
    /\ LoopCompleted =>
         /\ Len(chunk_log) = NumWindows(video_duration)
         /\ video_duration > 0 =>
              /\ chunk_log[Len(chunk_log)].end = video_duration
              /\ WindowLen(Len(chunk_log)) =
                    (IF video_duration % chunk_duration # 0
                     THEN video_duration % chunk_duration ELSE chunk_duration)

C5_Witness ==
    /\ LoopCompleted
    /\ video_duration = 65
    /\ Len(chunk_log) = 3
    /\ <<chunk_log[1].start, chunk_log[1].end>> = <<0, 30>>
    /\ <<chunk_log[2].start, chunk_log[2].end>> = <<30, 60>>
    /\ <<chunk_log[3].start, chunk_log[3].end>> = <<60, 65>>

(* A response that reduces to a well-formed evaluation: it parses into an
   object that has the key evaluation_summary. *)
WellFormed(text) ==
    \A ov \in ParserOverflow :
        LET r == clean_and_parse_json(text, ov)
        IN  r.out = "return" /\ r.val.t = "dict" /\ r.val.key = "evaluation_summary"

IsErrorRecord(r) == r.out = "return" /\ r.val.t = "dict" /\ r.val.key = "error"

\* C8: when the chunk loop has run to its end and no collected response
\* reduces to a well-formed evaluation (none collected included),
\* evaluate_video_with_qwen returns an error record and raises nothing.
C8_NoValidResponseGivesErrorRecord ==
    (Finished /\ loop_exc = "" /\ \A i \in 1..Len(all_responses) : ~WellFormed(all_responses[i]))
        => IsErrorRecord(result)

(* The chunk files registered during the run: one per window entered *)
RegisteredFiles == {chunk_log[i].index : i \in 1..Len(chunk_log)}

\* C9 as stated: when evaluate_video_with_qwen has finished, no chunk file
\* registered during the run exists any more.
C9_AllRegisteredFilesRemoved ==
    Finished => RegisteredFiles \cap files = {}

\* C9 amended: when evaluate_video_with_qwen has finished, by returning or by
\* an exception that left the loop, a chunk file registered during the run
\* exists only if os.remove raised OSError for it.
C9_RegisteredFilesRemovedUnlessRemoveFails ==
    Finished => (RegisteredFiles \cap files) \subseteq remove_failed

C9_Witness ==
    /\ Finished
    /\ loop_exc # ""
    /\ Len(chunk_log) >= 2
    /\ chunk_log[1].created
    /\ chunk_log[1].outcomes = <<"OutOfMemoryError", "Exception">>
    /\ ~chunk_log[2].created
    /\ remove_failed = {}
    /\ files = {}

Failed(o) == o # "ok"

\* C10: for each chunk the model is invoked at most max_retries = 2 times and
\* not again after an attempt that succeeds; a chunk whose attempts all fail
\* adds nothing to all_responses, and the loop still visits every window.
C10_BoundedRetries ==
    /\ \A i \in 1..Len(chunk_log) :
         LET o == chunk_log[i].outcomes
         IN  /\ Len(o) <= max_retries
             /\ \A j \in 1..(Len(o) - 1) : Failed(o[j])
             /\ (o # <<>> /\ Failed(o[Len(o)])) => ~chunk_log[i].appended
    /\ Len(all_responses) = Cardinality({i \in 1..Len(chunk_log) : chunk_log[i].appended})
    /\ LoopCompleted => Len(chunk_log) = NumWindows(video_duration)

C10_Witness ==
    /\ Finished
    /\ Len(chunk_log) = 3
    /\ chunk_log[1].outcomes = <<"OutOfMemoryError", "Exception">>
    /\ chunk_log[2].outcomes = <<"Exception", "ok">>
    /\ chunk_log[2].appended
    /\ chunk_log[3].outcomes = <<"ok">>
    /\ Len(all_responses) = 2

----------------------------------------------------------------------------
(* Claims about the normalizer and the reduction *)

Called == npc = "done"

\* C7: clean_and_parse_json returns a parsed object or an error object for
\* every text, and raises nothing.
C7_ReturnsObjectNeverRaises ==
    Called => (nresult.out = "return" /\ nresult.val.t = "dict")

(* The first response that reduces to a well-formed evaluation, 0 if none *)
FirstWellFormed(responses) ==
    IF \E i \in 1..Len(responses) : WellFormed(responses[i])
    THEN CHOOSE i \in 1..Len(responses) :
            WellFormed(responses[i]) /\ \A j \in 1..(i - 1) : ~WellFormed(responses[j])
    ELSE 0

\* C6: when some response parses into an object with the key
\* evaluation_summary, combine_chunk_responses returns the parse of the first
\* such response, whatever comes before or after it.
C6_FirstValidWins ==
    (Called /\ FirstWellFormed(nresponses) # 0) =>
        \A ov \in ParserOverflow :
            nresult = clean_and_parse_json(nresponses[FirstWellFormed(nresponses)], ov)

----------------------------------------------------------------------------
(* Claims about generate_final_output, checked under SpecFinalOutput, and
   about extract_audio_clips, checked under SpecExtract *)

NumericCells == {"1", "2", "2.0", "3"}
NonNumericCells == {"", "abc", MissingField}

MalformedRow(row) ==
    row.ncols < MinColumns \/ row.start \in NonNumericCells \/ row.end \in NonNumericCells

ValidRow(row) ==
    row.ncols >= MinColumns /\ row.start \in NumericCells /\ row.end \in NumericCells

ClipsOfRow(i) == {j \in 1..Len(audio_clips) : audio_clips[j].text = i}

(* C11: in generate_final_output a row with a non-numeric start or end time
   or with fewer than 19 columns never ends the row loop and has no clip,
   and every valid row read so far has exactly one clip carrying its times,
   during the loop and in the written output. *)
C11_MalformedRowsSkipped ==
    /\ aout \in {"", "written", "write_failed", "aborted"}
    /\ aout \in {"", "written"} =>
          \A i \in 1..Len(rows) :
              /\ MalformedRow(rows[i]) => ClipsOfRow(i) = {}
              /\ ValidRow(rows[i]) =>
                    /\ Cardinality(ClipsOfRow(i)) = 1
                    /\ \A j \in ClipsOfRow(i) :
                          /\ audio_clips[j].start_time = Float(rows[i].start).val
                          /\ audio_clips[j].end_time = Float(rows[i].end).val

(* a written output of three rows: valid, malformed, valid *)
C11_Witness ==
    /\ aout = "written"
    /\ Len(rows) = 3
    /\ ValidRow(rows[1])
    /\ MalformedRow(rows[2])
    /\ ValidRow(rows[3])
    /\ {audio_clips[j].text : j \in 1..Len(audio_clips)} = {1, 3}

(* C12: in extract_audio_clips every clip has a finite start_time, and a
   matching row whose start time cannot be coerced (missing or non-numeric)
   has no clip and does not end the extraction. *)
C12_ClipsFiniteBadStartDropped ==
    /\ aout \in {"", "returned"}
    /\ \A j \in 1..Len(audio_clips) : audio_clips[j].start_time.k = "num"
    /\ \A i \in 1..Len(rows) :
          (rows[i].match /\ rows[i].start \in NonNumericCells) => ClipsOfRow(i) = {}

Le(a, b) == a.k = "num" /\ b.k = "num" /\ a.v <= b.v

(* C13: the audio_clips written by generate_final_output are non-decreasing
   by start_time, and clips of equal start_time stand in the order of their
   rows. *)
C13_SortedAndStable ==
    aout = "written" =>
        \A j \in 1..(Len(audio_clips) - 1) :
            /\ Le(audio_clips[j].start_time, audio_clips[j + 1].start_time)
            /\ audio_clips[j].start_time = audio_clips[j + 1].start_time
                   => audio_clips[j].text < audio_clips[j + 1].text

----------------------------------------------------------------------------
(* More claims about clean_and_parse_json, checked under SpecNormalizer *)

NoBraces(text) == \A i \in 1..Len(text) : text[i] \notin {"LB", "RB"}

(* C14: for every non-empty text without '{' and without '}',
   clean_and_parse_json returns the parse-failure error object and its
   raw_response is the text exactly as it was passed in. *)
C14_NoBraceTextGivesErrorWithOriginal ==
    (Called /\ ntext # <<>> /\ NoBraces(ntext)) =>
        nresult = Return(ErrorObject("Failed to parse model output as JSON", <<ntext>>))

(* Texts that are a Python dict display with a single-quoted key,
   {'evaluation_summary': 42} and {'evaluation_summary': "abc"}: json.loads
   rejects them, ast.literal_eval of the same text yields the dict. *)
PythonDicts == {<<"LB", "SQKEY", "NUM", "RB">>, <<"LB", "SQKEY", "STR", "RB">>}

PermissiveValue(text) ==
    DictVal("evaluation_summary", <<IF text[3] = "NUM" THEN NumVal ELSE StrVal(1)>>)

(* C15: when the span from the first '{' to the last '}' fails strict JSON
   parsing, the permissive literal parse of the original text is tried next
   and the error object is returned only if that fails too: a text that the
   strict parse rejects and the permissive parse accepts yields the
   permissive parse's value. *)
C15_PermissiveParseAfterStrictFailure ==
    (Called /\ ntext \in PythonDicts) =>
        /\ JsonLoads(Strip(RemoveFences(ntext))).exc = "JSONDecodeError"
        /\ nresult = Return(PermissiveValue(ntext))

----------------------------------------------------------------------------
(* Claim about main of qwen_evaluate.py, checked under SpecMain *)

(* the text cannot be parsed: clean_and_parse_json raises or returns an
   error object *)
Unparseable(text) ==
    \A ov \in ParserOverflow :
        LET r == clean_and_parse_json(text, ov)
        IN  r.out = "raise" \/ IsErrorRecord(r)

(* C16: when a required input file is missing the run ends without writing
   an output file; when the evaluation ran (no exception left the chunk
   loop) and every response gathered is unparseable, or none was gathered,
   the output file is written (unless opening it fails) and holds an error
   object. *)
C16_MissingInputNoFileElseErrorFile ==
    mpc = "done" =>
        /\ ~(inputs.video /\ inputs.json) => output_file = <<>>
        /\ ( /\ "evaluated" \in Range(mtrace)
             /\ "save_failed" \notin Range(mtrace)
             /\ \A i \in 1..Len(collected) : Unparseable(collected[i]) )
           => /\ output_file # <<>>
              /\ IsErrorRecord(Return(output_file[1]))

----------------------------------------------------------------------------
(* More claims about evaluate_video_with_qwen, checked under SpecChunker *)

LoopEnded == cpc \in {"finally", "combine", "done"}

(* C17: when ffmpeg fails to create the segment of a window, the model is
   not invoked for that window, no response is recorded for it, and every
   later window is still entered, one after the other in increasing time
   order up to the end of the video. *)
C17_FailedWindowSkippedLaterWindowsRun ==
    (LoopEnded /\ loop_exc # "OSError") =>
        \A i \in 1..Len(chunk_log) :
            ~chunk_log[i].created =>
                /\ chunk_log[i].outcomes = <<>>
                /\ ~chunk_log[i].appended
                /\ Len(chunk_log) = NumWindows(video_duration)
                /\ \A j \in (i + 1)..Len(chunk_log) :
                      /\ chunk_log[j].start = chunk_log[j - 1].end
                      /\ chunk_log[j].start < chunk_log[j].end

(* C18: when the duration probe fails, get_video_duration yields 0, the
   chunk loop runs zero iterations (no window, no segment file, no model
   call, no response), and the function returns the error record of the
   reduction of no responses. *)
C18_ProbeFailureGivesEmptyRun ==
    probe_failed =>
        /\ video_duration = 0
        /\ cpc \notin {"create", "infer"}
        /\ chunk_log = <<>>
        /\ temp_files = <<>>
        /\ files = {}
        /\ all_responses = <<>>
        /\ Finished => result = Return(ErrorObject("No valid responses from chunks", <<>>))

C18_Witness == probe_failed /\ Finished /\ IsErrorRecord(result)

(* C19 as claimed: the file of a window is removed before the segment of the
   next window is created, so at most one chunk file exists at any time. *)
C19_AtMostOneChunkFile == Cardinality(files) <= 1

(* Window i has been dealt with: no segment and no model call, or a segment
   and model calls up to the first success or to max_retries failures *)
WindowComplete(i) ==
    LET w == chunk_log[i]
    IN  IF w.created
        THEN /\ w.outcomes # <<>>
             /\ w.outcomes[Len(w.outcomes)] = "ok" \/ Len(w.outcomes) = max_retries
        ELSE w.outcomes = <<>>

CreatedFiles == {chunk_log[i].index : i \in {k \in 1..Len(chunk_log) : chunk_log[k].created}}

(* C19 as the code has it: the windows are processed strictly one after the
   other (when a window is entered every earlier window has been dealt
   with), but no chunk file is removed inside the loop: every segment
   created so far exists until the cleanup that follows the loop. *)
C19_SequentialWindowsFilesKeptUntilCleanup ==
    /\ \A i \in 1..(Len(chunk_log) - 1) : WindowComplete(i)
    /\ cpc \in {"loop", "finally"} => \A i \in 1..Len(chunk_log) : WindowComplete(i)
    /\ cpc \in {"loop", "create", "infer", "finally"} => CreatedFiles \subseteq files

(* the model is invoked for the third window while all three files exist *)
C19_Witness == cpc = "infer" /\ Cardinality(files) = 3 /\ CreatedFiles = files

----------------------------------------------------------------------------
(* One more claim about prepare_dialogue, checked under SpecDialogue *)

(* the line before the last one was folded into the previous interval *)
PrevLineMerged == prevLine.kind # "none" /\ lastLine.lenBefore = prevLine.lenBefore

(* a step that extends the last interval touches nothing but its end_time
   and duration *)
ExtensionKeepsTheRest ==
    (Len(dialogue) > 0 /\ Len(dialogue') = Len(dialogue) /\ dialogue' # dialogue) =>
        /\ \A i \in 1..(Len(dialogue) - 1) : dialogue'[i] = dialogue[i]
        /\ dialogue'[Len(dialogue)].start_time = dialogue[Len(dialogue)].start_time
        /\ dialogue'[Len(dialogue)].sequence_num = dialogue[Len(dialogue)].sequence_num
        /\ dialogue'[Len(dialogue)].end_time = last_dialogue_end'[1] - TrailingTrim
        /\ ~continuing_dialogue'

(* a step that starts a new interval leaves every earlier interval as it was *)
EmitKeepsTheRest ==
    Len(dialogue') > Len(dialogue) =>
        /\ Len(dialogue') = Len(dialogue) + 1
        /\ SubSeq(dialogue', 1, Len(dialogue)) = dialogue

(* C20: a line processed while continuing_dialogue is false always starts a
   new interval, however close it starts to the previous raw end; a merge
   clears the flag, so the line right after a merged line always starts a
   new interval and no interval covers more than two lines; an extension
   changes only end_time and duration of the last interval. *)
C20_MergeOnlyWhenFlaggedAtMostOnce ==
    /\ [](/\ (lastLine.kind # "none" /\ ~lastLine.flag) => LastLineEmitted
          /\ PrevLineMerged => (~lastLine.flag /\ LastLineEmitted)
          /\ (lastLine.kind # "none" /\ ~LastLineEmitted) => (LastLineMerged /\ ~continuing_dialogue)
          /\ nLines <= 2 * Len(dialogue))
    /\ [][ExtensionKeepsTheRest /\ EmitKeepsTheRest]_vars

(* the line after a merged line starts less than 0.1 after the raw end of
   the merged line and still starts a new interval *)
C20_Witness ==
    /\ PrevLineMerged
    /\ lastLine.hadPrev
    /\ lastLine.gap < GapThreshold
    /\ LastLineEmitted

(* every interval that is not the last one after a step has the end_time it
   had before; the interval that has just stopped being the last one ends
   0.1 before the raw end of the line processed before the step, which is
   the last line folded into it *)
EarlierEndsFrozen ==
    \A i \in 1..(Len(dialogue') - 1) :
        /\ i <= Len(dialogue)
        /\ dialogue'[i].end_time =
              (IF i < Len(dialogue) THEN dialogue[i].end_time
               ELSE last_dialogue_end[1] - TrailingTrim)

(* C21: after every processed prefix of the lines the end_time of the last
   interval is the raw absolute end of the line processed last (which is
   last_dialogue_end) minus 0.1, whether that line started the interval or
   extended it; the end_time of every earlier interval is the raw end of the
   last line folded into it minus 0.1 and never changes afterwards. *)
C21_EndTimeIsRawEndMinusTrim ==
    /\ [](/\ dialogue # <<>> =>
                /\ lastLine.kind # "none"
                /\ last_dialogue_end = <<lastLine.end>>
                /\ dialogue[Len(dialogue)].end_time = lastLine.end - TrailingTrim
          /\ (Len(dialogue) >= 2 /\ LastLineEmitted) =>
                dialogue[Len(dialogue) - 1].end_time = prevLine.end - TrailingTrim)
    /\ [][EarlierEndsFrozen]_vars

(* three lines processed: two intervals, the third line extended the second *)
C21_Witness ==
    /\ nLines = 3
    /\ Len(dialogue) = 2
    /\ lastLine.lenBefore = 2
    /\ dialogue[2].end_time = lastLine.end - TrailingTrim
    /\ dialogue[2].end_time # prevLine.end - TrailingTrim

====
